---- MODULE Spec2Model ----
(***************************************************************************)
(* A model of the Dirichlet-tree election audit library:                   *)
(*   - DirichletTree (src/src/dirichlet_tree.hpp): the facade owning the   *)
(*     root node, the parameters, the observed list and a PRNG;            *)
(*   - RDirichletTree (R_tree.cpp, src/unnamed/part_000): the adapter      *)
(*     converting name ballots to index ballots, and the batched           *)
(*     posterior driver samplePosterior.                                   *)
(*   - RSocialChoiceIRV and PIRVDirichletTree (RcppIRV.cpp, same file):    *)
(*     the IRV call and the adapter of the partially ordered tree.         *)
(* IRVNode, IRVParameters, IRVBallot and socialChoiceIRV are not part of   *)
(* the available sources; they are modelled from the specification text.   *)
(***************************************************************************)
EXTENDS Integers, Sequences, FiniteSets, TLC

(***************************************************************************)
(* Bounds of the model.                                                    *)
(***************************************************************************)
\* The most entries the tree's observed list may hold before updates stop.
MaxObserved == 2
\* The longest ballot list handed to one adapter update call.
MaxList == 2
\* The largest multiplicity handed to DirichletTree::update.
MaxCount == 2
\* The largest nSets and N handed to posteriorSets / nBallots to the driver.
MaxN == 2
\* The largest nElections handed to the driver.
MaxElections == 3
\* The largest nBatches handed to the driver.
MaxBatches == 2
\* The most ballots handed to one IRV call.
MaxIRVBallots == 3
\* The largest nSamples handed to sampleMarginalProbability.
MaxSamples == 2

(***************************************************************************)
(* Candidates and ballots.                                                 *)
(***************************************************************************)
\* The candidate names given to the constructor, in order.
CandidateNames == <<"a", "b", "c">>
NCand == Len(CandidateNames)
Cands == 0 .. (NCand - 1)
\* The branch index of the halt branch in a node's count vector.
HaltBranch == NCand

\* Name ballots a caller may hand to the adapter: valid ones, the empty
\* ballot, one naming a candidate twice, one naming an unknown candidate.
BallotInputs ==
  { <<>>, <<"a">>, <<"b", "a">>, <<"a", "a">>, <<"b", "x">> }

RECURSIVE SeqsUpTo(_, _)
SeqsUpTo(S, n) ==
  IF n = 0 THEN { <<>> }
  ELSE LET shorter == SeqsUpTo(S, n - 1)
       IN shorter \cup { Append(s, x) : s \in { t \in shorter : Len(t) = n - 1 }, x \in S }

BallotLists == SeqsUpTo(BallotInputs, MaxList)

Range(s) == { s[i] : i \in DOMAIN s }

\* The seeds a caller may pass (std::string seeds, named by a number).
Seeds == { 0, 1 }

\* The concentrations a0 a caller may pass (naturals in the model).
A0Values == { 1, 2 }

\* The pool widths std::thread::hardware_concurrency() may report.
PoolWidths == { 1, 2 }

(***************************************************************************)
(* The PRNG: std::mt19937 as a full-period congruential generator on       *)
(* 0 .. PrngMod-1.  A draw advances the state and returns it.              *)
(***************************************************************************)
PrngMod == 16
Step(e) == (5 * e + 3) % PrngMod

RECURSIVE StepN(_, _)
StepN(e, k) == IF k = 0 THEN e ELSE StepN(Step(e), k - 1)

\* engine.discard(k): Step is a single cycle through all PrngMod states, so
\* k draws equal k % PrngMod draws.
Discard(e, k) == StepN(e, k % PrngMod)

\* The number of draws setSeed discards as warm-up.
WarmupDraws == 1000
\* mt19937::state_size.
StateSize == 624

\* DirichletTree::setSeed: seed the engine from the seed, then warm up.
setSeed(seed) == Discard(seed % PrngMod, WarmupDraws)

(***************************************************************************)
(* Tree nodes (IRVNode, modelled from the specification, section 4.3).     *)
(* The tree maps each materialized prefix to its vector of counts, one     *)
(* per candidate branch plus the halt branch.                              *)
(***************************************************************************)
FreshNode == [b \in 0 .. NCand |-> 0]
FreshTree == (<<>> :> FreshNode)

IsPrefixOf(p, o) == Len(p) <= Len(o) /\ p = SubSeq(o, 1, Len(p))

\* IRVNode::update from the root: an empty ballot is skipped; otherwise
\* every node on the ballot's path is materialized, the branch taken at
\* each is incremented, and the halt branch of the last one.
NodeUpdate(t, o, count) ==
  IF o = <<>> THEN t
  ELSE [p \in DOMAIN t \cup { SubSeq(o, 1, d) : d \in 0 .. Len(o) } |->
          LET old == IF p \in DOMAIN t THEN t[p] ELSE FreshNode
          IN IF ~IsPrefixOf(p, o) THEN old
             ELSE IF Len(p) = Len(o)
                  THEN [old EXCEPT ![HaltBranch] = @ + count]
                  ELSE [old EXCEPT ![o[Len(p) + 1]] = @ + count]]


(***************************************************************************)
(* Sampling (IRVNode::sample, modelled from the specification, section     *)
(* 4.3.2).  P is the parameter record [minDepth, maxDepth, a0].  A ballot  *)
(* is drawn by walking down from the root: at each node one draw picks a   *)
(* branch with weight a0 + count.                                          *)
(***************************************************************************)
CandSeq == [i \in 1 .. NCand |-> i - 1]

\* The branches open at prefix p: the remaining candidates in index order,
\* then the halt branch when minDepth <= depth < maxDepth.
Branches(p, P) ==
  LET rem == SelectSeq(CandSeq, LAMBDA c : c \notin Range(p))
  IN IF P.minDepth <= Len(p) /\ Len(p) < P.maxDepth
     THEN Append(rem, HaltBranch) ELSE rem

Weight(t, p, b, P) == P.a0 + (IF p \in DOMAIN t THEN t[p][b] ELSE 0)

RECURSIVE SumWeights(_, _, _, _)
SumWeights(t, p, bs, P) ==
  IF bs = <<>> THEN 0
  ELSE Weight(t, p, Head(bs), P) + SumWeights(t, p, Tail(bs), P)

RECURSIVE PickBranch(_, _, _, _, _)
PickBranch(t, p, bs, P, r) ==
  IF Len(bs) = 1 \/ r < Weight(t, p, Head(bs), P) THEN Head(bs)
  ELSE PickBranch(t, p, Tail(bs), P, r - Weight(t, p, Head(bs), P))

\* One ballot drawn from prefix p with engine e: [ballot, e].
RECURSIVE SampleWalk(_, _, _, _)
SampleWalk(t, P, p, e) ==
  LET bs == Branches(p, P)
  IN IF Len(p) >= P.maxDepth \/ Len(p) = NCand \/ bs = <<>>
     THEN [ballot |-> p, e |-> e]
     ELSE IF Len(bs) = 1
          THEN IF Head(bs) = HaltBranch THEN [ballot |-> p, e |-> e]
               ELSE SampleWalk(t, P, Append(p, Head(bs)), e)
          ELSE LET e1 == Step(e)
                   b == PickBranch(t, p, bs, P, e1 % SumWeights(t, p, bs, P))
               IN IF b = HaltBranch THEN [ballot |-> p, e |-> e1]
                  ELSE SampleWalk(t, P, Append(p, b), e1)

\* IRVNode::sample(n, path, engine) from the root: n ballots, none when
\* n <= 0: [out, e].
RECURSIVE NodeSample(_, _, _, _)
NodeSample(t, P, n, e) ==
  IF n <= 0 THEN [out |-> <<>>, e |-> e]
  ELSE LET one == SampleWalk(t, P, <<>>, e)
           rest == NodeSample(t, P, n - 1, one.e)
       IN [out |-> <<one.ballot>> \o rest.out, e |-> rest.e]

(***************************************************************************)
(* The IRV social choice function (socialChoiceIRV, modelled from the      *)
(* specification, section 4.5): the elimination order, winner last, and    *)
(* the engine after the tie-breaking draws.                                *)
(***************************************************************************)
\* The first preference of ballot b among the standing candidates, or
\* HaltBranch when the ballot is exhausted.
RECURSIVE FirstStanding(_, _)
FirstStanding(b, standing) ==
  IF b = <<>> THEN HaltBranch
  ELSE IF Head(b) \in standing THEN Head(b)
       ELSE FirstStanding(Tail(b), standing)

Tally(el, standing, c) ==
  Cardinality({ i \in DOMAIN el : FirstStanding(el[i], standing) = c })

RECURSIVE IRVRounds(_, _, _, _)
IRVRounds(el, standing, order, e) ==
  IF Cardinality(standing) <= 1
  THEN [order |-> order \o SelectSeq(CandSeq, LAMBDA c : c \in standing), e |-> e]
  ELSE LET least == CHOOSE m \in 0 .. Len(el) :
                      /\ \E c \in standing : Tally(el, standing, c) = m
                      /\ \A c \in standing : Tally(el, standing, c) >= m
           tied == SelectSeq(CandSeq,
                     LAMBDA c : c \in standing /\ Tally(el, standing, c) = least)
           e1 == IF Len(tied) = 1 THEN e ELSE Step(e)
           out == IF Len(tied) = 1 THEN tied[1] ELSE tied[(e1 % Len(tied)) + 1]
       IN IRVRounds(el, standing \ {out}, Append(order, out), e1)

socialChoiceIRV(el, e) == IRVRounds(el, Cands, <<>>, e)

(***************************************************************************)
(* DirichletTree (src/src/dirichlet_tree.hpp).  s is the record of the     *)
(* adapter's and the tree's fields.                                        *)
(***************************************************************************)
Params(s) == [minDepth |-> s.minDepth, maxDepth |-> s.maxDepth, a0 |-> s.a0]

\* DirichletTree::reset: the root is replaced by a fresh node.
DirichletTree_reset(s) == [s EXCEPT !.tree = FreshTree]

\* DirichletTree::update(o, count).
DirichletTree_update(s, o, count) ==
  [s EXCEPT !.observed = Append(@, o), !.tree = NodeUpdate(@, o, count)]

\* DirichletTree::sample(n, engine): [out, e].
DirichletTree_sample(s, n, e) == NodeSample(s.tree, Params(s), n, e)

\* The loop of DirichletTree::posteriorSets from iteration i on: [out, e].
RECURSIVE PosteriorSetsLoop(_, _, _, _, _)
PosteriorSetsLoop(s, i, bound, N, e) ==
  IF i >= bound THEN [out |-> <<>>, e |-> e]
  ELSE LET n == Len(s.observed)
           new == DirichletTree_sample(s, N - n, e)
           rest == PosteriorSetsLoop(s, i + 1, bound, N, new.e)
       IN [out |-> <<s.observed \o new.out>> \o rest.out, e |-> rest.e]

\* DirichletTree::posteriorSets(nSets, N, engine): the loop runs while i < N.
DirichletTree_posteriorSets(s, nSets, N, e) == PosteriorSetsLoop(s, 0, N, N, e)


(***************************************************************************)
(* RDirichletTree (R_tree.cpp in src/unnamed/part_000): the adapter.       *)
(***************************************************************************)
\* The candidate map the constructor builds: name -> index.
ConstructedMap == [nm \in Range(CandidateNames) |->
                     (CHOOSE i \in 1 .. NCand : CandidateNames[i] = nm) - 1]

\* One ballot of names to indices; only called when every name is known.
IndexPrefs(cm, namePrefs) == [j \in 1 .. Len(namePrefs) |-> cm[namePrefs[j]]]

\* RDirichletTree::parseBallotList from ballot i on, with the ballots parsed
\* so far in out: [err, out, parsed], parsed being the number of ballots
\* converted before the unknown candidate stopped the call.
RECURSIVE ParseFrom(_, _, _, _)
ParseFrom(cm, bs, i, out) ==
  IF i > Len(bs) THEN [err |-> FALSE, out |-> out, parsed |-> Len(out)]
  ELSE IF \E j \in 1 .. Len(bs[i]) : bs[i][j] \notin DOMAIN cm
       THEN [err |-> TRUE, out |-> <<>>, parsed |-> Len(out)]
       ELSE ParseFrom(cm, bs, i + 1, Append(out, <<IndexPrefs(cm, bs[i]), 1>>))

parseBallotList(cm, bs) == ParseFrom(cm, bs, 1, <<>>)

\* The body of the loop of RDirichletTree::update for one IRVBallotCount bc.
ObserveBallot(s, bc) ==
  LET depth == Len(bc[1])
      s1 == [s EXCEPT !.nObserved = @ + bc[2]]
      s2 == DirichletTree_update(s1, bc[1], bc[2])
  IN [s2 EXCEPT !.observedDepths = @ \cup {depth}]

RECURSIVE ObserveAll(_, _)
ObserveAll(s, bcs) ==
  IF bcs = <<>> THEN s ELSE ObserveAll(ObserveBallot(s, Head(bcs)), Tail(bcs))

\* Whether the loop of RDirichletTree::update raises its warning for bcs.
UpdateWarns(s, bcs) ==
  \E i \in DOMAIN bcs : Len(bcs[i][1]) < s.minDepth /\ Len(bcs[i][1]) > 0

\* An update that converts and observes the ballots one at a time, stopping
\* at the first unknown candidate.
RECURSIVE UpdateEagerFrom(_, _, _, _)
UpdateEagerFrom(s, bs, i, warn) ==
  IF i > Len(bs) THEN [s |-> s, err |-> "none", warn |-> warn, parsed |-> Len(bs)]
  ELSE LET r == parseBallotList(s.cm, <<bs[i]>>)
       IN IF r.err
          THEN [s |-> s, err |-> "InvalidArgument", warn |-> FALSE, parsed |-> i - 1]
          ELSE UpdateEagerFrom(ObserveAll(s, r.out), bs, i + 1,
                               warn \/ UpdateWarns(s, r.out))

RDirichletTree_updateEager(s, bs) == UpdateEagerFrom(s, bs, 1, FALSE)

\* An update for which a ballot shorter than minDepth is fatal.
RDirichletTree_updateStrict(s, bs) ==
  LET r == parseBallotList(s.cm, bs)
  IN IF r.err
     THEN [s |-> s, err |-> "InvalidArgument", warn |-> FALSE, parsed |-> r.parsed]
     ELSE IF UpdateWarns(s, r.out)
          THEN [s |-> s, err |-> "InconsistentState", warn |-> TRUE,
                parsed |-> r.parsed]
          ELSE [s |-> ObserveAll(s, r.out), err |-> "none", warn |-> FALSE,
                parsed |-> r.parsed]

\* RDirichletTree::update(ballots): [s, err, warn, parsed].
RDirichletTree_update(s, bs) ==
  LET r == parseBallotList(s.cm, bs)
  IN IF r.err
     THEN [s |-> s, err |-> "InvalidArgument", warn |-> FALSE, parsed |-> r.parsed]
     ELSE [s |-> ObserveAll(s, r.out), err |-> "none",
           warn |-> UpdateWarns(s, r.out), parsed |-> r.parsed]

\* RDirichletTree::reset.
RDirichletTree_reset(s) ==
  [DirichletTree_reset(s) EXCEPT !.nObserved = 0, !.observedDepths = {}]

\* RDirichletTree::setMinDepth(m): [s, err, warn].
RDirichletTree_setMinDepth(s, m) ==
  IF m > s.maxDepth THEN [s |-> s, err |-> "InvalidArgument", warn |-> FALSE]
  ELSE [s |-> [s EXCEPT !.minDepth = m], err |-> "none",
        warn |-> \E d \in s.observedDepths : d < m /\ d > 0]

\* A setMaxDepth that stores m without comparing it with minDepth.
RDirichletTree_setMaxDepthUnchecked(s, m) ==
  [s |-> [s EXCEPT !.maxDepth = m], err |-> "none", warn |-> FALSE]

\* RDirichletTree::setMaxDepth(m): [s, err, warn].
RDirichletTree_setMaxDepth(s, m) ==
  IF m < s.minDepth THEN [s |-> s, err |-> "InvalidArgument", warn |-> FALSE]
  ELSE [s |-> [s EXCEPT !.maxDepth = m], err |-> "none", warn |-> FALSE]

\* RDirichletTree::setA0 and RDirichletTree::setVD.
RDirichletTree_setA0(s, a) == [s EXCEPT !.a0 = a]
RDirichletTree_setVD(s, v) == [s EXCEPT !.vd = v]

(***************************************************************************)
(* State.                                                                  *)
(***************************************************************************)
VARIABLES
  candidateMap,    \* RDirichletTree::candidateMap
  nObserved,       \* RDirichletTree::nObserved
  observedDepths,  \* RDirichletTree::observedDepths
  observed,        \* DirichletTree::observed
  tree,            \* DirichletTree::root and its materialized descendants
  minDepth, maxDepth, a0, vd,   \* IRVParameters
  engine,          \* DirichletTree::engine
  told,            \* history: every ballot handed to DirichletTree::update
                   \* since construction or the last reset, once per count
  last             \* history: the last call, its arguments and its outcome

treeVars == <<candidateMap, nObserved, observedDepths, observed, tree,
              minDepth, maxDepth, a0, vd, engine>>

\* The fields as one record, and back.
Cur == [cm |-> candidateMap, nObserved |-> nObserved,
        observedDepths |-> observedDepths, observed |-> observed,
        tree |-> tree, minDepth |-> minDepth, maxDepth |-> maxDepth,
        a0 |-> a0, vd |-> vd, engine |-> engine]

Becomes(s) ==
  /\ candidateMap' = s.cm
  /\ nObserved' = s.nObserved
  /\ observedDepths' = s.observedDepths
  /\ observed' = s.observed
  /\ tree' = s.tree
  /\ minDepth' = s.minDepth
  /\ maxDepth' = s.maxDepth
  /\ a0' = s.a0
  /\ vd' = s.vd
  /\ engine' = s.engine

\* The arguments of a samplePosterior call.
NoArgs == [nElections |-> 0, nBallots |-> 0, nWinners |-> 0, nBatches |-> 0,
           seed |-> 0]

\* What a ballot list handed to update holds: its length, whether a ballot
\* names a candidate the constructor was not given, whether a ballot names
\* a candidate twice, whether a ballot is empty.
NamesUnknown(bs) ==
  \E i \in DOMAIN bs : \E j \in DOMAIN bs[i] : bs[i][j] \notin Range(CandidateNames)
NamesTwice(bs) ==
  \E i \in DOMAIN bs : \E j, k \in DOMAIN bs[i] : j # k /\ bs[i][j] = bs[i][k]
HoldsEmpty(bs) == \E i \in DOMAIN bs : bs[i] = <<>>
Given(bs) == [len |-> Len(bs), unknown |-> NamesUnknown(bs),
              twice |-> NamesTwice(bs), empty |-> HoldsEmpty(bs)]

NoCall == [op |-> "new", err |-> "none", warn |-> FALSE, parsed |-> 0,
           given |-> Given(<<>>), nSets |-> 0, N |-> 0, args |-> NoArgs,
           ret |-> <<>>, overlap |-> FALSE, m |-> 0]

\* A ballot repeated count times.
Copies(o, count) == [i \in 1 .. count |-> o]



(***************************************************************************)
(* The posterior driver, RDirichletTree::samplePosterior.                  *)
(***************************************************************************)
\* The seeds drawn from the tree's engine e: nBatches + 1 draws.
RECURSIVE DrawSeeds(_, _)
DrawSeeds(e, k) ==
  IF k = 0 THEN [seeds |-> <<>>, e |-> e]
  ELSE LET rest == DrawSeeds(Step(e), k - 1)
       IN [seeds |-> <<Step(e)>> \o rest.seeds, e |-> rest.e]

\* The remainder without the case of nElections <= 1.
BatchRemainderPlain(a) == a.nElections % a.nBatches

\* The batch size and the remainder.
BatchSize(a) == IF a.nElections <= 1 THEN 0 ELSE a.nElections \div a.nBatches
BatchRemainder(a) ==
  IF a.nElections <= 1 THEN a.nElections ELSE a.nElections % a.nBatches

\* samplePosterior_begin without the check of nBallots.
samplePosterior_beginUnchecked(s, a) ==
  LET d == DrawSeeds(setSeed(a.seed), a.nBatches + 1)
  IN [err |-> "none",
      s |-> [s EXCEPT !.engine = Discard(d.e, StateSize * 100)],
      seeds |-> d.seeds, dispatched |-> TRUE]

\* samplePosterior_begin without setSeed: the seeds are drawn from the
\* engine as the last call left it.
samplePosterior_beginUnseeded(s, a) ==
  IF a.nBallots < s.nObserved
  THEN [err |-> "InvalidArgument", s |-> s, seeds |-> <<>>, dispatched |-> FALSE]
  ELSE LET d == DrawSeeds(s.engine, a.nBatches + 1)
       IN [err |-> "none",
           s |-> [s EXCEPT !.engine = Discard(d.e, StateSize * 100)],
           seeds |-> d.seeds, dispatched |-> TRUE]

\* samplePosterior up to the dispatch of the jobs: the check of nBallots,
\* setSeed, the seeds, the warm-up of the tree's engine:
\* [err, s, seeds, dispatched].
samplePosterior_begin(s, a) ==
  IF a.nBallots < s.nObserved
  THEN [err |-> "InvalidArgument", s |-> s, seeds |-> <<>>, dispatched |-> FALSE]
  ELSE LET d == DrawSeeds(setSeed(a.seed), a.nBatches + 1)
       IN [err |-> "none",
           s |-> [s EXCEPT !.engine = Discard(d.e, StateSize * 100)],
           seeds |-> d.seeds, dispatched |-> TRUE]

\* Every job reading the first seed slot.
SeedSlotFirst(i) == 0

\* Every job writing the first results slot.
ResultSlotFirst(i) == 0

\* The seed slot job i reads and the results slot it writes.
SeedSlot(i) == i
ResultSlot(i) == i

\* The number of sets job i asks of posteriorSets.
JobSize(a, i) == IF i < a.nBatches THEN BatchSize(a) ELSE BatchRemainder(a)

\* getBatchResult(i, batchSize) up to the end of posteriorSets: the engine
\* seeded from the job's seed and warmed up, the elections: [out, e].
getBatchResult_simulate(s, sds, a, i) ==
  DirichletTree_posteriorSets(s, JobSize(a, i), a.nBallots,
                              Discard(sds[SeedSlot(i) + 1], StateSize * 100))

\* The aggregation: for each elimination order of each results slot, one
\* count for each of its last nWinners entries.
RECURSIVE CountWins(_, _, _)
CountWins(orders, nWinners, c) ==
  IF orders = <<>> THEN 0
  ELSE (IF \E k \in (NCand - nWinners + 1) .. NCand : Head(orders)[k] = c
        THEN 1 ELSE 0) + CountWins(Tail(orders), nWinners, c)

RECURSIVE Flatten(_)
Flatten(rs) == IF rs = <<>> THEN <<>> ELSE Head(rs) \o Flatten(Tail(rs))

\* The returned vector: counts[c] / nElections for each candidate c.
Aggregate(rs, a) ==
  [counts |-> [c \in Cands |-> CountWins(Flatten(rs), a.nWinners, c)],
   div |-> a.nElections]

VARIABLES
  dpc,          \* samplePosterior's position: "idle" or "running"
  seeds,        \* samplePosterior's seeds vector
  jpc,          \* each job's position: "todo", "scoring", "done", "aborted"
  jeng,         \* each job's engine e
  jelections,   \* each job's elections not yet scored
  results,      \* samplePosterior's results vector
  width,        \* the pool's width, std::thread::hardware_concurrency()
  interrupt,    \* whether a user interrupt is pending
  overlapped,   \* history: whether two jobs of this call ran at the same time
  asked,        \* history: the nSets each job has asked of posteriorSets,
                \* <<>> before it asks
  firstRun      \* history: the first call that returned since the tree last
                \* changed, <<[args, ret]>>, or <<>>

runVars == <<dpc, seeds, jpc, jeng, jelections, results, width, interrupt,
             overlapped, asked>>
driverVars == <<runVars, firstRun>>
vars == <<treeVars, told, last, driverVars>>

DriverIdle ==
  /\ dpc = "idle" /\ seeds = <<>> /\ jpc = <<>> /\ jeng = <<>>
  /\ jelections = <<>> /\ results = <<>> /\ width = 0 /\ interrupt = FALSE
  /\ overlapped = FALSE /\ asked = <<>> /\ firstRun = <<>>


(***************************************************************************)
(* Construction.                                                           *)
(***************************************************************************)
ConstructedTree(lo, hi, a, v, seed) ==
  /\ candidateMap = ConstructedMap
  /\ nObserved = 0
  /\ observedDepths = {}
  /\ observed = <<>>
  /\ tree = FreshTree
  /\ minDepth = lo /\ maxDepth = hi /\ a0 = a /\ vd = v
  /\ engine = setSeed(seed)
  /\ told = <<>>
  /\ DriverIdle

Constructed(lo, hi, a, v, seed) ==
  ConstructedTree(lo, hi, a, v, seed) /\ last = NoCall

\* RDirichletTree::RDirichletTree with any valid parameters.
Init ==
  \E lo \in 0 .. NCand,  a \in A0Values, v \in BOOLEAN, seed \in Seeds :
    \E hi \in lo .. NCand : Constructed(lo, hi, a, v, seed)

\* A tree used through the facade alone, or under the driver: ballots of
\* any length from 1 to NCand may be sampled.
InitTree == \E  a \in A0Values, seed \in Seeds : Constructed(1, NCand, a, FALSE, seed)

(***************************************************************************)
(* The adapter's operations, called from R's single thread while no        *)
(* samplePosterior call is running.                                        *)
(***************************************************************************)
\* The ballots of a name ballot list as the caller means them.
Meant(bs) == [i \in 1 .. Len(bs) |-> IndexPrefs(ConstructedMap, bs[i])]

Update(bs) ==
  /\ dpc = "idle"
  /\ Len(observed) + Len(bs) <= MaxObserved
  /\ LET r == RDirichletTree_update(Cur, bs)
     IN /\ Becomes(r.s)
        /\ told' = IF r.err = "none" THEN told \o Meant(bs) ELSE told
        /\ last' = [NoCall EXCEPT !.op = "update", !.err = r.err,
                                  !.warn = r.warn, !.parsed = r.parsed,
                                  !.given = Given(bs)]
        /\ firstRun' = IF r.err = "none" THEN <<>> ELSE firstRun
  /\ UNCHANGED runVars

Reset ==
  /\ dpc = "idle"
  /\ Becomes(RDirichletTree_reset(Cur))
  /\ told' = <<>>
  /\ last' = [NoCall EXCEPT !.op = "reset"]
  /\ firstRun' = <<>>
  /\ UNCHANGED runVars

SetMinDepth(m) ==
  /\ dpc = "idle"
  /\ LET r == RDirichletTree_setMinDepth(Cur, m)
     IN /\ Becomes(r.s)
        /\ last' = [NoCall EXCEPT !.op = "setMinDepth", !.err = r.err,
                                  !.warn = r.warn, !.m = m]
  /\ UNCHANGED <<told, driverVars>>

SetMaxDepth(m) ==
  /\ dpc = "idle"
  /\ LET r == RDirichletTree_setMaxDepth(Cur, m)
     IN /\ Becomes(r.s)
        /\ last' = [NoCall EXCEPT !.op = "setMaxDepth", !.err = r.err,
                                  !.warn = r.warn, !.m = m]
  /\ UNCHANGED <<told, driverVars>>

SetA0(a) ==
  /\ dpc = "idle"
  /\ Becomes(RDirichletTree_setA0(Cur, a))
  /\ last' = [NoCall EXCEPT !.op = "setA0"]
  /\ UNCHANGED <<told, driverVars>>

SetVD(v) ==
  /\ dpc = "idle"
  /\ Becomes(RDirichletTree_setVD(Cur, v))
  /\ last' = [NoCall EXCEPT !.op = "setVD"]
  /\ UNCHANGED <<told, driverVars>>

(***************************************************************************)
(* The facade's operations, called on the DirichletTree itself.            *)
(***************************************************************************)
\* Index ballots a caller may hand to DirichletTree::update.
TreeBallots == { <<>>, <<0>>, <<1, 0>> }

TreeUpdate(o, count) ==
  /\ dpc = "idle"
  /\ Len(observed) < MaxObserved
  /\ Becomes(DirichletTree_update(Cur, o, count))
  /\ told' = told \o Copies(o, count)
  /\ last' = [NoCall EXCEPT !.op = "tree.update"]
  /\ UNCHANGED driverVars

TreePosteriorSets(nSets, N) ==
  /\ dpc = "idle"
  /\ LET r == DirichletTree_posteriorSets(Cur, nSets, N, engine)
     IN /\ engine' = r.e
        /\ last' = [NoCall EXCEPT !.op = "posteriorSets", !.nSets = nSets,
                                  !.N = N, !.ret = r.out]
  /\ UNCHANGED <<candidateMap, nObserved, observedDepths, observed, tree,
                 minDepth, maxDepth, a0, vd, told, driverVars>>

TreeSetSeed(seed) ==
  /\ dpc = "idle"
  /\ engine' = setSeed(seed)
  /\ last' = [NoCall EXCEPT !.op = "setSeed"]
  /\ UNCHANGED <<candidateMap, nObserved, observedDepths, observed, tree,
                 minDepth, maxDepth, a0, vd, told, driverVars>>

(***************************************************************************)
(* samplePosterior: the call, the jobs, the join and the aggregation.      *)
(***************************************************************************)
Jobs == 1 .. Len(jpc)
PoolJobs == { j \in Jobs : j <= last.args.nBatches }

SamplePosterior(a, w) ==
  /\ dpc = "idle"
  /\ LET b == samplePosterior_begin(Cur, a)
     IN /\ Becomes(b.s)
        /\ IF b.dispatched
           THEN /\ dpc' = "running"
                /\ seeds' = b.seeds
                /\ jpc' = [j \in 1 .. a.nBatches + 1 |->
                             IF j <= a.nBatches \/ BatchRemainder(a) > 0
                             THEN "todo" ELSE "done"]
                /\ jeng' = [j \in 1 .. a.nBatches + 1 |-> 0]
                /\ jelections' = [j \in 1 .. a.nBatches + 1 |-> <<>>]
                /\ results' = [j \in 1 .. a.nBatches + 1 |-> <<>>]
                /\ width' = w
                /\ asked' = [j \in 1 .. a.nBatches + 1 |-> <<>>]
                /\ UNCHANGED <<interrupt, overlapped>>
           ELSE UNCHANGED runVars
        /\ last' = [NoCall EXCEPT !.op = "samplePosterior", !.args = a,
                                  !.err = IF b.err = "none" /\ b.dispatched
                                          THEN "running" ELSE b.err]
  /\ UNCHANGED <<told, firstRun>>

\* Job j - 1 starts: on a free pool thread, or (the remainder) on the
\* calling thread.  It polls the interrupt, seeds its engine and simulates.
JobStart(j) ==
  /\ dpc = "running"
  /\ j \in Jobs /\ jpc[j] = "todo"
  /\ j \in PoolJobs => Cardinality({ k \in PoolJobs : jpc[k] = "scoring" }) < width
  /\ IF interrupt
     THEN /\ jpc' = [jpc EXCEPT ![j] = "aborted"]
          /\ UNCHANGED <<jeng, jelections, overlapped, asked>>
     ELSE LET r == getBatchResult_simulate(Cur, seeds, last.args, j - 1)
          IN /\ jeng' = [jeng EXCEPT ![j] = r.e]
             /\ asked' = [asked EXCEPT ![j] = <<JobSize(last.args, j - 1)>>]
             /\ jelections' = [jelections EXCEPT ![j] = r.out]
             /\ jpc' = [jpc EXCEPT ![j] = IF r.out = <<>> THEN "done" ELSE "scoring"]
             /\ overlapped' = (overlapped \/ (r.out # <<>> /\ \E k \in Jobs : jpc[k] = "scoring"))
  /\ UNCHANGED <<treeVars, told, last, dpc, seeds, results, width, interrupt, firstRun>>

\* Job j - 1 scores its next election.
JobScore(j) ==
  /\ dpc = "running"
  /\ j \in Jobs /\ jpc[j] = "scoring"
  /\ LET r == socialChoiceIRV(Head(jelections[j]), jeng[j])
     IN /\ results' = [results EXCEPT ![ResultSlot(j - 1) + 1] = Append(@, r.order)]
        /\ jeng' = [jeng EXCEPT ![j] = r.e]
        /\ jelections' = [jelections EXCEPT ![j] = Tail(@)]
        /\ jpc' = [jpc EXCEPT ![j] = IF Tail(jelections[j]) = <<>> THEN "done" ELSE "scoring"]
  /\ UNCHANGED <<treeVars, told, last, dpc, seeds, width, interrupt, overlapped,
                 asked, firstRun>>

UserInterrupt ==
  /\ dpc = "running" /\ ~interrupt
  /\ interrupt' = TRUE
  /\ UNCHANGED <<treeVars, told, last, dpc, seeds, jpc, jeng, jelections, results,
                 width, overlapped, asked, firstRun>>

\* pool.join() returns, the results are aggregated and returned.
Returns ==
  /\ dpc = "running"
  /\ \A j \in Jobs : jpc[j] \in {"done", "aborted"}
  /\ last' = IF \E j \in Jobs : jpc[j] = "aborted"
             THEN [last EXCEPT !.err = "Interrupted"]
             ELSE [last EXCEPT !.err = "none", !.ret = Aggregate(results, last.args),
                               !.overlap = overlapped]
  /\ dpc' = "idle" /\ seeds' = <<>> /\ jpc' = <<>> /\ jeng' = <<>>
  /\ jelections' = <<>> /\ results' = <<>> /\ width' = 0 /\ interrupt' = FALSE
  /\ overlapped' = FALSE /\ asked' = <<>>
  /\ UNCHANGED <<treeVars, told>>

Finish == Returns /\ UNCHANGED firstRun

\* Finish, remembering the first call that returned a vector.
FinishRemembered ==
  /\ Returns
  /\ firstRun' = IF firstRun = <<>> /\ last'.err = "none"
                 THEN <<[args |-> last'.args, ret |-> last'.ret]>> ELSE firstRun

(***************************************************************************)
(* The IRV call, RSocialChoiceIRV (RcppIRV.cpp in src/unnamed/part_000).   *)
(***************************************************************************)
\* socialChoiceIRV(el, nCandidates, engine) for any number of candidates.
socialChoiceIRV_n(el, n, e) == IRVRounds(el, 0 .. (n - 1), <<>>, e)

\* cNames: the names in the order in which the ballots first name them.
RECURSIVE FirstSeen(_, _)
FirstSeen(names, seen) ==
  IF names = <<>> THEN seen
  ELSE FirstSeen(Tail(names),
                 IF Head(names) \in Range(seen) THEN seen ELSE Append(seen, Head(names)))

\* c2Index: the index of a name in cNames.
IndexIn(cNames, nm) == (CHOOSE i \in DOMAIN cNames : cNames[i] = nm) - 1

\* scInput: the non-empty ballots as index ballots.
IRVInput(bs, cNames) ==
  LET kept == SelectSeq(bs, LAMBDA b : b # <<>>)
  IN [i \in DOMAIN kept |-> [j \in DOMAIN kept[i] |-> IndexIn(cNames, kept[i][j])]]

\* The names of the entries from .. to of an elimination order.
NamesOf(cNames, order, from, to) ==
  [k \in 1 .. (to - from + 1) |-> cNames[order[from + k - 1] + 1]]

\* An IRV call that reports the first nWinners of the order as eliminated.
RSocialChoiceIRV_headWinners(bs, nWinners, seed) ==
  LET cNames == FirstSeen(Flatten(bs), <<>>)
      n == Len(cNames)
      scInput == IRVInput(bs, cNames)
  IN IF nWinners < 1 \/ nWinners >= n \/ scInput = <<>>
     THEN [err |-> "InvalidArgument", order |-> <<>>, names |-> cNames,
           elimination_order |-> <<>>, winners |-> <<>>]
     ELSE LET r == socialChoiceIRV_n(scInput, n, Discard(seed % PrngMod, StateSize * 100))
          IN [err |-> "none", order |-> r.order, names |-> cNames,
              elimination_order |-> NamesOf(cNames, r.order, 1, nWinners),
              winners |-> NamesOf(cNames, r.order, nWinners + 1, n)]

\* RSocialChoiceIRV(bs, nWinners, seed):
\* [err, order, names, elimination_order, winners].
RSocialChoiceIRV(bs, nWinners, seed) ==
  LET cNames == FirstSeen(Flatten(bs), <<>>)
      n == Len(cNames)
      scInput == IRVInput(bs, cNames)
  IN IF nWinners < 1 \/ nWinners >= n \/ scInput = <<>>
     THEN [err |-> "InvalidArgument", order |-> <<>>, names |-> cNames,
           elimination_order |-> <<>>, winners |-> <<>>]
     ELSE LET r == socialChoiceIRV_n(scInput, n, Discard(seed % PrngMod, StateSize * 100))
          IN [err |-> "none", order |-> r.order, names |-> cNames,
              elimination_order |-> NamesOf(cNames, r.order, 1, n - nWinners),
              winners |-> NamesOf(cNames, r.order, n - nWinners + 1, n)]

\* Name ballots a caller may hand to the IRV call.
IRVBallots == { <<>>, <<"a">>, <<"b">>, <<"b", "a">>, <<"c", "b", "a">> }

\* The arguments of an IRV call about to be made.
IRVCalled(bs, nWinners, seed) ==
  /\ ConstructedTree(1, NCand, 1, FALSE, 0)
  /\ last = [NoCall EXCEPT
               !.op = "irv.call", !.given = Given(bs),
               !.args = [NoArgs EXCEPT !.nWinners = nWinners, !.seed = seed],
               !.ret = [ballots |-> bs]]

\* The call runs and returns.
IRVCall ==
  /\ last.op = "irv.call"
  /\ LET bs == last.ret.ballots
         r == RSocialChoiceIRV(bs, last.args.nWinners, last.args.seed)
     IN last' = [last EXCEPT
                   !.op = "irv", !.err = r.err,
                   !.ret = [ballots |-> bs, names |-> r.names, order |-> r.order,
                            elimination_order |-> r.elimination_order,
                            winners |-> r.winners]]
  /\ UNCHANGED <<treeVars, told, driverVars>>

(***************************************************************************)
(* PIRVDirichletTree (RcppIRV.cpp in src/unnamed/part_000): the adapter    *)
(* of the partially ordered IRV tree, on the same fields.                  *)
(***************************************************************************)
\* PIRVDirichletTree::update(ballots): [s, err, parsed].
PIRVDirichletTree_update(s, bs) ==
  LET r == parseBallotList(s.cm, bs)
  IN IF r.err THEN [s |-> s, err |-> "InvalidArgument", parsed |-> r.parsed]
     ELSE [s |-> [ObserveAll(s, r.out) EXCEPT !.observedDepths = s.observedDepths],
           err |-> "none", parsed |-> r.parsed]

\* PIRVDirichletTree::reset.
PIRVDirichletTree_reset(s) == [DirichletTree_reset(s) EXCEPT !.nObserved = 0]

\* The candidate map after candidateMap[name] was read for each name of the
\* ballot: operator[] inserts a missing name with the value 0.
RECURSIVE IndexedWith(_, _)
IndexedWith(cm, names) ==
  IF names = <<>> THEN cm
  ELSE IndexedWith(IF Head(names) \in DOMAIN cm THEN cm ELSE cm @@ (Head(names) :> 0),
                   Tail(names))

\* The engine after nSamples draws of the marginal probability of a ballot
\* (IRVNode::marginalProbability, modelled from the specification, section
\* 4.3.3: one draw at each depth of the ballot).
MarginalDraws(e, nSamples, ballot) == StepN(e, nSamples * Len(ballot))

\* PIRVDirichletTree::sampleMarginalProbability(nSamples, ballot, seed).
PIRVDirichletTree_sampleMarginalProbability(s, nSamples, ballot, seed) ==
  [s EXCEPT !.cm = IndexedWith(@, ballot),
            !.engine = MarginalDraws(setSeed(seed), nSamples, ballot)]

PIRVUpdate(bs) ==
  /\ dpc = "idle"
  /\ Len(observed) + Len(bs) <= MaxObserved
  /\ LET r == PIRVDirichletTree_update(Cur, bs)
     IN /\ Becomes(r.s)
        /\ told' = told \o SubSeq(r.s.observed, Len(observed) + 1, Len(r.s.observed))
        /\ last' = [NoCall EXCEPT !.op = "update", !.err = r.err,
                                  !.parsed = r.parsed, !.given = Given(bs)]
  /\ UNCHANGED driverVars

PIRVReset ==
  /\ dpc = "idle"
  /\ Becomes(PIRVDirichletTree_reset(Cur))
  /\ told' = <<>>
  /\ last' = [NoCall EXCEPT !.op = "reset"]
  /\ UNCHANGED driverVars

PIRVSampleMarginalProbability(nSamples, ballot, seed) ==
  /\ dpc = "idle"
  /\ Becomes(PIRVDirichletTree_sampleMarginalProbability(Cur, nSamples, ballot, seed))
  /\ last' = [NoCall EXCEPT !.op = "sampleMarginalProbability",
                            !.given = Given(<<ballot>>), !.N = nSamples]
  /\ UNCHANGED <<told, driverVars>>

(***************************************************************************)
(* Specifications.                                                         *)
(***************************************************************************)
\* The adapter, called from one thread.
Next ==
  \/ \E bs \in BallotLists : Update(bs)
  \/ Reset
  \/ \E m \in 0 .. NCand : SetMinDepth(m)
  \/ \E m \in 0 .. NCand : SetMaxDepth(m)
  \/ \E a \in A0Values : SetA0(a)
  \/ \E v \in BOOLEAN : SetVD(v)

Spec == Init /\ [][Next]_vars

\* The facade alone.
NextTree ==
  \/ \E o \in TreeBallots, count \in 1 .. MaxCount : TreeUpdate(o, count)
  \/ \E nSets \in 0 .. MaxN, N \in 0 .. MaxN : TreePosteriorSets(nSets, N)
  \/ \E seed \in Seeds : TreeSetSeed(seed)

SpecTree == InitTree /\ [][NextTree]_vars

\* The posterior driver between updates and resets: every call with
\* nWinners in range, and calls with no winner or every candidate a winner.
DriverArgs ==
  [nElections : 0 .. MaxElections, nBallots : 0 .. MaxN,
   nWinners : 1 .. (NCand - 1), nBatches : 1 .. MaxBatches, seed : Seeds]
  \cup [nElections : {MaxElections}, nBallots : {MaxN}, nWinners : {0, NCand},
        nBatches : {1}, seed : {0}]

\* The calls with nWinners in range.
WinnersInRange(a) == 1 <= a.nWinners /\ a.nWinners < NCand

\* The name ballots observed between driver calls.
DriverBallots == { <<"a">>, <<"b", "a">> }

\* One tree, as constructed.
InitDriver == Constructed(1, NCand, 1, FALSE, 0)

NextDriver ==
  \/ \E b \in DriverBallots : Update(<<b>>)
  \/ Reset
  \/ \E a \in DriverArgs, w \in PoolWidths : SamplePosterior(a, w)
  \/ \E j \in 1 .. MaxBatches + 1 : JobStart(j)
  \/ \E j \in 1 .. MaxBatches + 1 : JobScore(j)
  \/ UserInterrupt
  \/ Finish

SpecDriver == InitDriver /\ [][NextDriver]_vars

\* The posterior driver called again with the arguments of the first call
\* that returned, the pool width and the schedule being free.
NextRerun ==
  \/ \E b \in DriverBallots : Update(<<b>>)
  \/ Reset
  \/ \E a \in DriverArgs, w \in PoolWidths :
       /\ WinnersInRange(a)
       /\ firstRun # <<>> => a = firstRun[1].args
       /\ SamplePosterior(a, w)
  \/ \E j \in 1 .. MaxBatches + 1 : JobStart(j)
  \/ \E j \in 1 .. MaxBatches + 1 : JobScore(j)
  \/ FinishRemembered

SpecRerun == InitDriver /\ [][NextRerun]_vars

\* The adapter of the partially ordered tree, called from one thread.
InitPIRV ==
  \E lo \in 0 .. NCand, a \in A0Values, seed \in Seeds :
    Constructed(lo, NCand, a, FALSE, seed)

NextPIRV ==
  \/ \E bs \in BallotLists : PIRVUpdate(bs)
  \/ PIRVReset
  \/ \E nSamples \in 0 .. MaxSamples, ballot \in BallotInputs, seed \in Seeds :
       PIRVSampleMarginalProbability(nSamples, ballot, seed)

SpecPIRV == InitPIRV /\ [][NextPIRV]_vars

\* The IRV call alone, on any ballots, nWinners and seed.
InitIRV ==
  \E bs \in SeqsUpTo(IRVBallots, MaxIRVBallots), nWinners \in 0 .. NCand,
     seed \in Seeds : IRVCalled(bs, nWinners, seed)

NextIRV == IRVCall

SpecIRV == InitIRV /\ [][NextIRV]_vars



(***************************************************************************)
(* Properties of DirichletTree::posteriorSets (under SpecTree).            *)
(***************************************************************************)
\* The number of ballots observed, each counted as often as update was told.
NTold == Len(told)

\* C1: for every nSets >= 0 and every N >= n_observed, posteriorSets(nSets, N)
\* returns exactly nSets lists, whatever N is.
C1_ReturnsNSetsLists ==
  (last.op = "posteriorSets" /\ last.N >= NTold) => Len(last.ret) = last.nSets

\* C2: after any updates with any counts, every list posteriorSets(nSets, N)
\* returns for N >= n_observed holds exactly N ballots: all the observed
\* ballots, each as often as it was observed, then N - n_observed draws; so
\* for N = n_observed exactly the observed ballots.
C2_ListsAreObservedThenDraws ==
  (last.op = "posteriorSets" /\ last.N >= NTold) =>
    \A k \in DOMAIN last.ret :
      /\ Len(last.ret[k]) = last.N
      /\ SubSeq(last.ret[k], 1, NTold) = told

(***************************************************************************)
(* Properties of the adapter's reset and update (under Spec).              *)
(***************************************************************************)
ParamsKept ==
  /\ minDepth' = minDepth /\ maxDepth' = maxDepth /\ a0' = a0 /\ vd' = vd
  /\ DOMAIN candidateMap' = DOMAIN candidateMap

\* C3: after reset() the observed list is empty, the observed depths are
\* empty, the observed count is 0 and the root is a fresh node without
\* children, while the parameters keep their values.
C3_ResetClearsObservations ==
  [][last'.op = "reset" =>
       /\ observed' = <<>> /\ observedDepths' = {} /\ nObserved' = 0
       /\ tree' = FreshTree
       /\ ParamsKept]_vars


(***************************************************************************)
(* Properties of the posterior driver (under SpecDriver and SpecRerun).    *)
(***************************************************************************)
\* A call of the driver has returned its vector.
Returned == last.op = "samplePosterior" /\ last.err = "none"

RECURSIVE SumTo(_, _)
SumTo(f, c) == IF c < 0 THEN 0 ELSE f[c] + SumTo(f, c - 1)

\* The sum of the win counts of a returned vector.
TotalWins(ret) == SumTo(ret.counts, NCand - 1)

\* C4: for every valid call (nElections >= 1, nBatches >= 1, nBallots >=
\* n_observed, 1 <= nWinners < nCandidates) the returned entries sum to
\* nWinners: the win counts sum to nWinners * nElections before the division.
C4_WinsSumToWinners ==
  (Returned /\ last.args.nElections >= 1 /\ WinnersInRange(last.args)) =>
    /\ last.ret.div = last.args.nElections
    /\ TotalWins(last.ret) = last.args.nWinners * last.args.nElections

\* The elimination orders of the elections els scored in order with engine e.
RECURSIVE ScoreAll(_, _)
ScoreAll(els, e) ==
  IF els = <<>> THEN <<>>
  ELSE LET r == socialChoiceIRV(Head(els), e)
       IN <<r.order>> \o ScoreAll(Tail(els), r.e)

\* The vector of a call with arguments a on tree s when the jobs run one
\* after the other in index order, job i with the engine seeded from the
\* i-th seed drawn, the remainder job last and only for a remainder > 0.
SequentialOutput(s, a) ==
  LET sds == DrawSeeds(setSeed(a.seed), a.nBatches + 1).seeds
      size(i) == IF i < a.nBatches THEN BatchSize(a) ELSE BatchRemainder(a)
      orders(i) ==
        LET sim == DirichletTree_posteriorSets(s, size(i), a.nBallots,
                                               Discard(sds[i + 1], StateSize * 100))
        IN ScoreAll(sim.out, sim.e)
      ran == [i \in 1 .. a.nBatches + 1 |->
                IF i <= a.nBatches \/ BatchRemainder(a) > 0 THEN orders(i - 1) ELSE <<>>]
  IN Aggregate(ran, a)

\* C5: given the same seed, nBatches, nElections, nBallots, nWinners,
\* observed ballots and parameters, the returned vector is the same under
\* every interleaving of the pool jobs and the remainder job and for every
\* pool width: it is the vector of the jobs run one after the other.
C5_OutputIndependentOfSchedule ==
  Returned => last.ret = SequentialOutput(Cur, last.args)

\* A call with two pool jobs whose jobs ran at the same time has returned a
\* vector with wins in it.
C5_Witness ==
  /\ Returned /\ last.overlap /\ last.args.nBatches >= 2
  /\ TotalWins(last.ret) > 0

C7_TooFewBallotsRejected ==
  [][(dpc = "idle" /\ last'.op = "samplePosterior" /\ last'.args.nBallots < nObserved) =>
       /\ last'.err = "InvalidArgument"
       /\ dpc' = "idle" /\ jpc' = <<>> /\ seeds' = <<>>
       /\ tree' = tree /\ observed' = observed /\ nObserved' = nObserved
       /\ observedDepths' = observedDepths
       /\ ParamsKept]_vars

\* A driver call with fewer ballots than observed has failed.
C7_Witness ==
  /\ last.op = "samplePosterior" /\ last.err = "InvalidArgument"
  /\ last.args.nBallots < nObserved /\ tree # FreshTree


(***************************************************************************)
(* Properties of the adapter's update (under Spec).                        *)
(***************************************************************************)
Unobserved ==
  /\ tree' = tree /\ observed' = observed /\ nObserved' = nObserved
  /\ observedDepths' = observedDepths

NoBallotNamesTwice(obs) ==
  \A i \in DOMAIN obs : \A j, k \in DOMAIN obs[i] : j # k => obs[i][j] # obs[i][k]

\* C9: an update with a ballot naming a candidate more than once is rejected
\* with InvalidArgument and leaves the tree, the observed list and the
\* observed count unchanged; so no observed ballot names a candidate twice.
C9_DuplicatesRejected ==
  [][/\ (last'.op = "update" /\ last'.given.twice) =>
          /\ last'.err = "InvalidArgument"
          /\ tree' = tree /\ observed' = observed /\ nObserved' = nObserved
     /\ NoBallotNamesTwice(observed')]_vars

\* C10: an update with an empty ballot leaves the tree unchanged and does not
\* append the ballot to the observed list, so the number of observed ballots
\* posteriorSets and the driver's check use is the same after the call.
C10_EmptyBallotNotObserved ==
  [][(last'.op = "update" /\ last'.given.len = 1 /\ last'.given.empty) =>
       /\ tree' = tree
       /\ observed' = observed
       /\ Len(observed') = Len(observed) /\ nObserved' = nObserved]_vars

(***************************************************************************)
(* Properties of the depth setters (under Spec).                           *)
(***************************************************************************)
\* C11: a step taken with minDepth <= maxDepth leaves minDepth <= maxDepth;
\* setMinDepth(m) fails exactly when m > maxDepth and setMaxDepth(m) exactly
\* when m < minDepth, and a failed setter changes neither depth.
C11_DepthsStayOrdered ==
  [][minDepth <= maxDepth =>
       /\ minDepth' <= maxDepth'
       /\ last'.op = "setMinDepth" =>
            /\ (last'.err # "none") = (last'.m > maxDepth)
            /\ last'.err # "none" => last'.err = "InvalidArgument"
       /\ last'.op = "setMaxDepth" =>
            /\ (last'.err # "none") = (last'.m < minDepth)
            /\ last'.err # "none" => last'.err = "InvalidArgument"
       /\ (last'.op \in {"setMinDepth", "setMaxDepth"} /\ last'.err # "none") =>
            (minDepth' = minDepth /\ maxDepth' = maxDepth)]_vars

\* A setMaxDepth(m) with m below minDepth has just failed.
C11_Witness ==
  /\ last.op = "setMaxDepth" /\ last.err = "InvalidArgument"
  /\ last.m < minDepth /\ minDepth <= maxDepth

(***************************************************************************)
(* Properties of the reducibility warning (under Spec).                    *)
(***************************************************************************)
\* The ballots the step's update handed to the tree.
JustTold == SubSeq(told', Len(told) + 1, Len(told'))

\* The nodes after the ballots os have been observed once each, in order.
RECURSIVE NodesAfter(_, _)
NodesAfter(t, os) ==
  IF os = <<>> THEN t ELSE NodesAfter(NodeUpdate(t, Head(os), 1), Tail(os))

\* C12: an update in reducible mode holding a ballot of length k,
\* 0 < k < minDepth, warns and still observes and counts every ballot of the
\* list as an update without warning does; a setMinDepth(m) with
\* m <= maxDepth while a ballot of length d, 0 < d < m, is observed warns
\* and still sets minDepth to m, changing nothing else.
C12_WarningIsNotFatal ==
  [][/\ (last'.op = "update" /\ last'.err = "none") =>
          /\ (vd /\ \E i \in DOMAIN JustTold : 0 < Len(JustTold[i])
                                              /\ Len(JustTold[i]) < minDepth)
               => last'.warn
          /\ Len(JustTold) = last'.given.len
          /\ nObserved' = nObserved + last'.given.len
          /\ observed' = observed \o JustTold
          /\ tree' = NodesAfter(tree, JustTold)
          /\ observedDepths' = observedDepths \cup { Len(JustTold[i]) : i \in DOMAIN JustTold }
     /\ (last'.op = "update" /\ last'.warn) => last'.err = "none"
     /\ (last'.op = "setMinDepth" /\ last'.m <= maxDepth) =>
          /\ (\E i \in DOMAIN told : 0 < Len(told[i]) /\ Len(told[i]) < last'.m)
               => last'.warn
          /\ last'.err = "none"
          /\ minDepth' = last'.m
          /\ UNCHANGED <<candidateMap, nObserved, observedDepths, observed, tree,
                         maxDepth, a0, vd, engine>>]_vars

\* An update in reducible mode has just warned and observed its ballots.
C12_Witness ==
  /\ last.op = "update" /\ last.warn /\ last.err = "none" /\ vd
  /\ nObserved >= 1 /\ \E i \in DOMAIN observed : 0 < Len(observed[i])
                                                /\ Len(observed[i]) < minDepth

(***************************************************************************)
(* Properties of the nWinners argument (under SpecDriver).                 *)
(***************************************************************************)
\* C13: a samplePosterior call with nWinners < 1 or nWinners >= nCandidates
\* fails with InvalidArgument, runs no job and returns no vector.
C13_WinnersOutOfRangeRejected ==
  (last.op = "samplePosterior" /\ ~WinnersInRange(last.args)) =>
    /\ last.err = "InvalidArgument"
    /\ last.ret = <<>>
    /\ dpc = "idle"

(***************************************************************************)
(* Properties of the IRV call (under SpecIRV).                             *)
(***************************************************************************)
\* The names a list of name ballots holds.
NamesIn(bs) == UNION { Range(bs[i]) : i \in DOMAIN bs }

\* C14: for ballots naming n candidates, not all empty, and nWinners in
\* [1, n), the IRV call returns an elimination_order of n - nWinners names
\* and nWinners winners, disjoint, together each candidate exactly once, in
\* the order of the computed elimination order, the last standing last.
C14_IRVCallPartitionsCandidates ==
  (last.op = "irv" /\ NamesIn(last.ret.ballots) # {}
     /\ 1 <= last.args.nWinners
     /\ last.args.nWinners < Cardinality(NamesIn(last.ret.ballots))) =>
    LET n == Cardinality(NamesIn(last.ret.ballots))
        all == last.ret.elimination_order \o last.ret.winners
    IN /\ last.err = "none"
       /\ Len(last.ret.elimination_order) = n - last.args.nWinners
       /\ Len(last.ret.winners) = last.args.nWinners
       /\ Range(last.ret.elimination_order) \cap Range(last.ret.winners) = {}
       /\ Len(all) = n /\ Range(all) = NamesIn(last.ret.ballots)
       /\ \A k \in 1 .. n : all[k] = last.ret.names[last.ret.order[k] + 1]
       /\ \A k \in 1 .. n : \A l \in 1 .. n : last.ret.order[k] = last.ret.order[l] => k = l

\* An IRV call over three candidates with one winner has returned, the
\* winner not being the candidate named last.
C14_Witness ==
  /\ last.op = "irv" /\ last.err = "none"
  /\ Len(last.ret.elimination_order) = 2 /\ Len(last.ret.winners) = 1
  /\ last.ret.winners # <<last.ret.names[3]>>

(***************************************************************************)
(* Properties of DirichletTree::update with a count (under SpecTree).      *)
(***************************************************************************)
\* C15: an update of a ballot with count 2 leaves the tree as two updates
\* of that ballot with count 1 each would: the same nodes and counts and the
\* same observed list for later posteriorSets calls.
C15_CountTwoIsTwoUpdates ==
  [][(last'.op = "tree.update" /\ Len(JustTold) = 2) =>
       LET o == JustTold[1]
           twice == DirichletTree_update(DirichletTree_update(Cur, o, 1), o, 1)
       IN /\ tree' = twice.tree
          /\ DOMAIN tree' = DOMAIN twice.tree
          /\ observed' = twice.observed]_vars

(***************************************************************************)
(* Properties of the batch sizes (under SpecDriver).                       *)
(***************************************************************************)
\* Every job of the running call has finished without an interrupt.
AllJobsDone == dpc = "running" /\ \A j \in Jobs : jpc[j] = "done"

RECURSIVE SumSeq(_)
SumSeq(q) == IF q = <<>> THEN 0 ELSE Head(q) + SumSeq(Tail(q))

\* C16: the nSets the jobs of a call ask of posteriorSets sum to nElections:
\* each pool job asks nElections / nBatches and the remainder job
\* nElections % nBatches, or, when nElections <= 1, each pool job asks 0 and
\* the remainder job nElections; the remainder job asks only for a remainder
\* above 0.
C16_BatchSizesSumToElections ==
  AllJobsDone =>
    LET a == last.args
        size == IF a.nElections <= 1 THEN 0 ELSE a.nElections \div a.nBatches
        rem == IF a.nElections <= 1 THEN a.nElections ELSE a.nElections % a.nBatches
    IN /\ SumSeq(Flatten(asked)) = a.nElections
       /\ \A j \in 1 .. a.nBatches : asked[j] = <<size>>
       /\ asked[a.nBatches + 1] = IF rem > 0 THEN <<rem>> ELSE <<>>

\* A call whose pool jobs and remainder job each asked for a set has run.
C16_Witness ==
  /\ AllJobsDone /\ last.args.nBatches = 2
  /\ \A j \in Jobs : asked[j] # <<>> /\ asked[j][1] > 0

(***************************************************************************)
(* Properties of the interrupt polling (under SpecDriver).                 *)
(***************************************************************************)
\* C17: a job polls the interrupt between its elections: once an interrupt
\* is pending, a job that has scored an election and has elections left
\* scores no further election.
C17_InterruptSeenBetweenElections ==
  [][\A j \in Jobs :
       (interrupt /\ jpc[j] = "scoring" /\ results[j] # <<>>
          /\ WinnersInRange(last.args)) =>
         results'[j] = results[j]]_vars

(***************************************************************************)
(* Properties of the jobs' engines and results slots (under SpecDriver).   *)
(***************************************************************************)
\* C18: while a call runs the tree's engine stands still: it is advanced
\* only by the call itself, before any job starts.  A job that starts gets
\* the engine seeded from its own seed slot and touches no other job's
\* engine; a job that scores an election draws from its own engine and
\* appends to its own results slot only.
C18_JobsOwnEngineAndSlot ==
  [][/\ dpc = "running" => engine' = engine
     /\ (dpc = "idle" /\ dpc' = "running") =>
          /\ \A j \in DOMAIN jpc' : jpc'[j] \in {"todo", "done"} /\ asked'[j] = <<>>
          /\ seeds' = DrawSeeds(setSeed(last'.args.seed), last'.args.nBatches + 1).seeds
     /\ (dpc = "running" /\ dpc' = "running") =>
          \A j \in Jobs :
            /\ (jpc[j] = "todo" /\ jpc'[j] \in {"scoring", "done"}) =>
                 LET sim == DirichletTree_posteriorSets(
                              Cur, asked'[j][1], last.args.nBallots,
                              Discard(seeds[j], StateSize * 100))
                 IN /\ jeng'[j] = sim.e /\ jelections'[j] = sim.out
                    /\ \A k \in Jobs \ {j} : jeng'[k] = jeng[k] /\ results'[k] = results[k]
            /\ (jpc[j] = "scoring" /\ jelections'[j] # jelections[j]) =>
                 LET r == socialChoiceIRV(Head(jelections[j]), jeng[j])
                 IN /\ jeng'[j] = r.e
                    /\ results'[j] = Append(results[j], r.order)
                    /\ \A k \in Jobs \ {j} : jeng'[k] = jeng[k] /\ results'[k] = results[k]]_vars

\* Two jobs of a call are scoring at the same time, each with elections
\* scored into its own slot.
C18_Witness ==
  /\ dpc = "running"
  /\ \E j \in Jobs : \E k \in Jobs \ {j} :
       /\ jpc[j] = "scoring" /\ jpc[k] = "scoring"
       /\ results[j] # <<>> /\ results[k] # <<>>

(***************************************************************************)
(* Properties of the observed count (under SpecDriver).                    *)
(***************************************************************************)
\* C19: after any updates and resets through the adapter, the adapter's
\* nObserved is the size of the tree's observed list; so while a call that
\* passed the check nBallots >= nObserved runs, the number of draws
\* posteriorSets asks of sample, nBallots less that size, is not negative.
C19_CountMatchesObservedList ==
  /\ nObserved = Len(observed)
  /\ dpc = "running" => last.args.nBallots - Len(observed) >= 0

(***************************************************************************)
(* Properties of the candidate map (under SpecPIRV).                       *)
(***************************************************************************)
\* C20: no operation adds a name to the candidate map, so an update with a
\* ballot naming a candidate the constructor was not given fails and
\* observes nothing, whatever ran before.
C20_CandidateMapFixed ==
  [][/\ DOMAIN candidateMap' = DOMAIN candidateMap
     /\ (last'.op = "update" /\ last'.given.unknown) =>
          (last'.err = "InvalidArgument" /\ Unobserved)]_vars

====
